---- MODULE Spec2Model ----
(***************************************************************************)
(* State-machine model of fabio's TIFF container (fabio/tifimage.py):      *)
(* one TifImage object, the operations read, close, getframe and write,    *)
(* and the two codecs it drives (TiffIO, the primary one, and PIL, the     *)
(* fallback one).  Each operation is one atomic action; the calls it makes *)
(* on the stream and on the codecs are recorded, in order, in last.trace.  *)
(***************************************************************************)
EXTENDS Integers, Sequences, FiniteSets, TLC

VARIABLES
    lib,        \* self.lib: "None", "TiffIO" or "PIL"
    _tiffio,    \* self._tiffio: None or the TiffIO object kept by read
    nframes,    \* self.nframes
    dim1,       \* self.dim1
    dim2,       \* self.dim2
    nbits,      \* self.nbits: None or the probed bit depth
    header,     \* self.header: a mapping from names to values
    data,       \* self.data: None or a pixel buffer
    pilimage,   \* self.pilimage: None or the PIL image kept by read
    Image,      \* the module global Image: TRUE iff PIL could be imported
    disk,       \* the file at the path write() targets: None or its content
    active,     \* the backend the last read that got past the probe selected,
                \* "None" once closed
    ops,        \* the number of operations performed so far
    unclosed,   \* the number of TiffIO objects a read stored on the container
                \* and nothing closed
    written,    \* self.data at the last write() that left the file: None or
                \* the buffer
    allocated,  \* the number of TiffFrame objects constructed so far
    last        \* the last operation: its name, exception, result and calls

vars == <<lib, _tiffio, nframes, dim1, dim2, nbits, header, data, pilimage,
          Image, disk, active, ops, unclosed, written, allocated, last>>

----------------------------------------------------------------------------
(* Bounds of the model.                                                    *)

\* axis extents and probed words range over 1..MaxDim
MaxDim == 2
\* the primary codec reports 0..MaxFrames frames
MaxFrames == 2
\* a run performs at most MaxOps operations
MaxOps == 3

----------------------------------------------------------------------------
(* Values.                                                                 *)

None == <<>>
Some(x) == <<x>>
IsNone(o) == o = <<>>
The(o) == o[1]

\* the number of bytes _readheader asks the stream for
ProbeLen == 64

Min(a, b) == IF a < b THEN a ELSE b

\* a pixel buffer (numpy array): its shape and the frame it was decoded from
Buffer(shape, val) == [shape |-> shape, val |-> val]
ndim(buf) == Len(buf.shape)

\* a tag value: a scalar, or a tuple or a list of scalars
Scalar(v) == [kind |-> "scalar", elems |-> <<v>>]
Tuple(s) == [kind |-> "tuple", elems |-> s]
List(s) == [kind |-> "list", elems |-> s]

EmptyHeader == [k \in {} |-> Scalar(0)]

\* one call made by an operation: what was called, its argument (the
\* index of the frame it is about, or -1), whether it returned normally,
\* and the stream position at the moment of the call
Event(call, arg, ok, pos) == [call |-> call, arg |-> arg, ok |-> ok, pos |-> pos]

----------------------------------------------------------------------------
(* The environment: byte streams and what the two codecs make of them.     *)

\* The primary codec on one stream.  step is the first call that raises:
\* "ctor" (TiffIO(infile)), "count" (getNumberOfImages), "info" (getInfo(0)),
\* "data" (getData(0)) or "ok" (none); count is the number of images, shape
\* the shape of every frame and val0 the content of frame 0.
Prim(step, count, shape, val0) ==
    [step |-> step, count |-> count, shape |-> shape, val0 |-> val0]

\* The fallback codec on one stream.  step is the first call that raises:
\* "open" (Image.open), "data" (pilutils.get_numpy_array) or "ok"; tags is
\* the image's native tag map, None when the image has no tag attribute.
Pil(step, tags, shape) == [step |-> step, tags |-> tags, shape |-> shape]

\* A stream: its length, the three 16-bit words the probe looks at (where
\* the stream is long enough to hold them) and the codecs' behaviour on it.
Stream(nbytes, w9, w15, w21, prim, pil) ==
    [nbytes |-> nbytes, w9 |-> w9, w15 |-> w15, w21 |-> w21,
     prim |-> prim, pil |-> pil]

Extents == 1..MaxDim
\* rank 2: height x width
Shapes2 == {<<h, w>> : h \in Extents, w \in Extents}
\* rank 3: the third axis is the colour
Shapes3 == {<<1, MaxDim, 3>>}
\* any other rank: here rank 1
Shapes1 == {<<MaxDim>>}
Shapes == Shapes2 \cup Shapes3 \cup Shapes1

\* the values of words 9 and 15 of a prefix
ProbePairs == {<<1, MaxDim>>, <<MaxDim, 1>>}

\* content of the frames decoded by the fallback codec
PilVal == 10

\* the shared id-to-name table TiffIO.TAG_ID, in iteration order
TAG_ID ==
    << <<256, <<78, 99>>>>,      \* "Nc"
       <<257, <<78, 114>>>>,     \* "Nr"
       <<270, <<105, 100>>>> >>  \* "id"
TagIds == {TAG_ID[i][1] : i \in 1..Len(TAG_ID)}

TagValues == {Scalar(1), Tuple(<<1>>), Tuple(<<1, 2>>), Tuple(<<>>), List(<<1>>)}

\* the native tag maps of the images the fallback codec opens in Spec
\* (999 is an id the table does not hold)
TagMaps ==
    { [k \in {256} |-> Tuple(<<1>>)],
      [k \in {257, 999} |-> Tuple(<<1, 2>>)] }

\* every native tag map over two ids of the table and an unknown one
AllTagMaps ==
    UNION { [D -> TagValues] : D \in SUBSET {256, 270, 999} }

PrimFailures ==
    {Prim("ctor", 0, <<1, 1>>, 0), Prim("count", 0, <<1, 1>>, 0)}
    \cup {Prim(st, MaxFrames, <<1, 1>>, 0) : st \in {"info", "data"}}
PrimSuccesses ==
    {Prim("ok", c, <<1, MaxDim>>, 0) : c \in 0..MaxFrames}
    \cup {Prim("ok", 1, sh, 0) : sh \in Shapes}

PilFailures == {Pil("open", None, <<1, 1>>)}
PilOpens ==
    {Pil("ok", None, <<1, 1>>)}
    \cup {Pil("data", Some(t), <<1, 1>>) : t \in TagMaps}
    \cup {Pil("ok", Some(t), <<MaxDim, 1>>) : t \in TagMaps}

\* streams too short for the probe, or of odd length
ShortStreams ==
    {Stream(n, 1, MaxDim, 8, p, q) :
        n \in {0, 19, 20, 32}, p \in {Prim("ok", 1, <<1, 1>>, 0)},
        q \in {Pil("ok", Some(EmptyHeader), <<1, 1>>)}}
\* streams the probe reads through: 44 bytes hold word 21, 64 the whole prefix
LongStreams ==
    {Stream(ProbeLen, w[1], w[2], 8, p, q) :
        w \in ProbePairs, p \in PrimFailures, q \in PilFailures \cup PilOpens}
    \cup {Stream(ProbeLen, w[1], w[2], 8, p, q) :
            w \in ProbePairs, p \in PrimSuccesses,
            q \in {Pil("ok", Some(EmptyHeader), <<1, 1>>)}}
    \cup {Stream(44, 1, MaxDim, 8, p, q) :
            p \in {Prim("ok", 1, <<1, 1>>, 0)}, q \in PilFailures}
Streams == ShortStreams \cup LongStreams

----------------------------------------------------------------------------
(* The codecs' objects.                                                    *)

\* the TiffIO object constructed on a stream whose primary behaviour is p
TiffIOObject(p) == [count |-> p.count, shape |-> p.shape, val0 |-> p.val0]
\* TiffIO.getData(i) and TiffIO.getInfo(i) for 0 <= i < count; the one
\* key of the info is "frame"
getData(t, i) == Buffer(t.shape, t.val0 + i)
getInfo(t, i) == [k \in {<<102, 114, 97, 109, 101>>} |-> Scalar(t.val0 + i)]

\* the PIL image Image.open returns on a stream whose fallback behaviour is q
PilImage(q) == [tags |-> q.tags, shape |-> q.shape, step |-> q.step]
\* pilutils.get_numpy_array(image)
get_numpy_array(img) == Buffer(img.shape, PilVal)

----------------------------------------------------------------------------
(* The TifImage object.                                                    *)

\* the object's fields, as one record
Self ==
    [lib |-> lib, _tiffio |-> _tiffio, nframes |-> nframes, dim1 |-> dim1,
     dim2 |-> dim2, nbits |-> nbits, header |-> header, data |-> data,
     pilimage |-> pilimage]

\* the outcome of a method: the object after it, the exception it raised
\* ("" when it returned), the value it returned and the calls it made
Outcome(self, exc, ret, trace) ==
    [self |-> self, exc |-> exc, ret |-> ret, trace |-> trace]

\* TiffFrame(data, tiff_header)
TiffFrame(d, h) == [data |-> d, tiff_header |-> h]
\* TiffFrame.header
FrameHeader(frame) == frame.tiff_header
\* TifImage._create_frame
_create_frame(image_data, tiff_header) == TiffFrame(image_data, tiff_header)

\* the stream position after infile.read(n) at position pos
AfterRead(st, pos, n) == Min(st.nbytes, pos + n)

\* (mutant) the seek is left out
seekNothing(pos, offset) == pos

\* infile.seek(offset) at position pos: the position after it
seek(pos, offset) == offset

\* the number of 16-bit words numpy.fromstring makes of the bytes read
ProbeWords(st) == Min(st.nbytes, ProbeLen) \div 2

\* TifImage._readheader: read 64 bytes, take them as 16-bit words and store
\* words 9, 15 and 21; a word the stream is too short to hold raises
\* IndexError, after the words before it were stored, and a prefix of odd
\* length raises ValueError
_readheader(self, st) ==
    LET ev == <<Event("infile.read", ProbeLen, TRUE, 0)>>
        s1 == [self EXCEPT !.dim1 = st.w9]
        s2 == [s1 EXCEPT !.dim2 = st.w15]
        s3 == [s2 EXCEPT !.nbits = Some(st.w21)]
    IN  IF Min(st.nbytes, ProbeLen) % 2 # 0 THEN Outcome(self, "ValueError", None, ev)
        ELSE IF ProbeWords(st) <= 9 THEN Outcome(self, "IndexError", None, ev)
        ELSE IF ProbeWords(st) <= 15 THEN Outcome(s1, "IndexError", None, ev)
        ELSE IF ProbeWords(st) <= 21 THEN Outcome(s2, "IndexError", None, ev)
        ELSE Outcome(s3, "", None, ev)

\* Characters are Unicode code points and strings are sequences of them.
\* The lowercase mapping of the Unicode database (version 14.0.0) for the
\* characters whose lowercase is another single character, in runs
\* <<first, last, stride, delta>>: the code points first, first + stride,
\* ..., last each go to themselves plus delta.
LowerOf ==
    <<
       <<65, 90, 1, 32>>, <<192, 214, 1, 32>>, <<216, 222, 1, 32>>, <<256, 302, 2, 1>>,
       <<306, 310, 2, 1>>, <<313, 327, 2, 1>>, <<330, 374, 2, 1>>, <<376, 376, 1, -121>>,
       <<377, 381, 2, 1>>, <<385, 385, 1, 210>>, <<386, 388, 2, 1>>, <<390, 390, 1, 206>>,
       <<391, 391, 1, 1>>, <<393, 394, 1, 205>>, <<395, 395, 1, 1>>, <<398, 398, 1, 79>>,
       <<399, 399, 1, 202>>, <<400, 400, 1, 203>>, <<401, 401, 1, 1>>, <<403, 403, 1, 205>>,
       <<404, 404, 1, 207>>, <<406, 406, 1, 211>>, <<407, 407, 1, 209>>, <<408, 408, 1, 1>>,
       <<412, 412, 1, 211>>, <<413, 413, 1, 213>>, <<415, 415, 1, 214>>, <<416, 420, 2, 1>>,
       <<422, 422, 1, 218>>, <<423, 423, 1, 1>>, <<425, 425, 1, 218>>, <<428, 428, 1, 1>>,
       <<430, 430, 1, 218>>, <<431, 431, 1, 1>>, <<433, 434, 1, 217>>, <<435, 437, 2, 1>>,
       <<439, 439, 1, 219>>, <<440, 440, 1, 1>>, <<444, 444, 1, 1>>, <<452, 452, 1, 2>>,
       <<453, 453, 1, 1>>, <<455, 455, 1, 2>>, <<456, 456, 1, 1>>, <<458, 458, 1, 2>>,
       <<459, 475, 2, 1>>, <<478, 494, 2, 1>>, <<497, 497, 1, 2>>, <<498, 500, 2, 1>>,
       <<502, 502, 1, -97>>, <<503, 503, 1, -56>>, <<504, 542, 2, 1>>, <<544, 544, 1, -130>>,
       <<546, 562, 2, 1>>, <<570, 570, 1, 10795>>, <<571, 571, 1, 1>>, <<573, 573, 1, -163>>,
       <<574, 574, 1, 10792>>, <<577, 577, 1, 1>>, <<579, 579, 1, -195>>, <<580, 580, 1, 69>>,
       <<581, 581, 1, 71>>, <<582, 590, 2, 1>>, <<880, 882, 2, 1>>, <<886, 886, 1, 1>>,
       <<895, 895, 1, 116>>, <<902, 902, 1, 38>>, <<904, 906, 1, 37>>, <<908, 908, 1, 64>>,
       <<910, 911, 1, 63>>, <<913, 929, 1, 32>>, <<931, 939, 1, 32>>, <<975, 975, 1, 8>>,
       <<984, 1006, 2, 1>>, <<1012, 1012, 1, -60>>, <<1015, 1015, 1, 1>>, <<1017, 1017, 1, -7>>,
       <<1018, 1018, 1, 1>>, <<1021, 1023, 1, -130>>, <<1024, 1039, 1, 80>>, <<1040, 1071, 1, 32>>,
       <<1120, 1152, 2, 1>>, <<1162, 1214, 2, 1>>, <<1216, 1216, 1, 15>>, <<1217, 1229, 2, 1>>,
       <<1232, 1326, 2, 1>>, <<1329, 1366, 1, 48>>, <<4256, 4293, 1, 7264>>, <<4295, 4295, 1, 7264>>,
       <<4301, 4301, 1, 7264>>, <<5024, 5103, 1, 38864>>, <<5104, 5109, 1, 8>>, <<7312, 7354, 1, -3008>>,
       <<7357, 7359, 1, -3008>>, <<7680, 7828, 2, 1>>, <<7838, 7838, 1, -7615>>, <<7840, 7934, 2, 1>>,
       <<7944, 7951, 1, -8>>, <<7960, 7965, 1, -8>>, <<7976, 7983, 1, -8>>, <<7992, 7999, 1, -8>>,
       <<8008, 8013, 1, -8>>, <<8025, 8031, 2, -8>>, <<8040, 8047, 1, -8>>, <<8072, 8079, 1, -8>>,
       <<8088, 8095, 1, -8>>, <<8104, 8111, 1, -8>>, <<8120, 8121, 1, -8>>, <<8122, 8123, 1, -74>>,
       <<8124, 8124, 1, -9>>, <<8136, 8139, 1, -86>>, <<8140, 8140, 1, -9>>, <<8152, 8153, 1, -8>>,
       <<8154, 8155, 1, -100>>, <<8168, 8169, 1, -8>>, <<8170, 8171, 1, -112>>, <<8172, 8172, 1, -7>>,
       <<8184, 8185, 1, -128>>, <<8186, 8187, 1, -126>>, <<8188, 8188, 1, -9>>, <<8486, 8486, 1, -7517>>,
       <<8490, 8490, 1, -8383>>, <<8491, 8491, 1, -8262>>, <<8498, 8498, 1, 28>>, <<8544, 8559, 1, 16>>,
       <<8579, 8579, 1, 1>>, <<9398, 9423, 1, 26>>, <<11264, 11311, 1, 48>>, <<11360, 11360, 1, 1>>,
       <<11362, 11362, 1, -10743>>, <<11363, 11363, 1, -3814>>, <<11364, 11364, 1, -10727>>, <<11367, 11371, 2, 1>>,
       <<11373, 11373, 1, -10780>>, <<11374, 11374, 1, -10749>>, <<11375, 11375, 1, -10783>>, <<11376, 11376, 1, -10782>>,
       <<11378, 11378, 1, 1>>, <<11381, 11381, 1, 1>>, <<11390, 11391, 1, -10815>>, <<11392, 11490, 2, 1>>,
       <<11499, 11501, 2, 1>>, <<11506, 11506, 1, 1>>, <<42560, 42604, 2, 1>>, <<42624, 42650, 2, 1>>,
       <<42786, 42798, 2, 1>>, <<42802, 42862, 2, 1>>, <<42873, 42875, 2, 1>>, <<42877, 42877, 1, -35332>>,
       <<42878, 42886, 2, 1>>, <<42891, 42891, 1, 1>>, <<42893, 42893, 1, -42280>>, <<42896, 42898, 2, 1>>,
       <<42902, 42920, 2, 1>>, <<42922, 42922, 1, -42308>>, <<42923, 42923, 1, -42319>>, <<42924, 42924, 1, -42315>>,
       <<42925, 42925, 1, -42305>>, <<42926, 42926, 1, -42308>>, <<42928, 42928, 1, -42258>>, <<42929, 42929, 1, -42282>>,
       <<42930, 42930, 1, -42261>>, <<42931, 42931, 1, 928>>, <<42932, 42946, 2, 1>>, <<42948, 42948, 1, -48>>,
       <<42949, 42949, 1, -42307>>, <<42950, 42950, 1, -35384>>, <<42951, 42953, 2, 1>>, <<42960, 42960, 1, 1>>,
       <<42966, 42968, 2, 1>>, <<42997, 42997, 1, 1>>, <<65313, 65338, 1, 32>>, <<66560, 66599, 1, 40>>,
       <<66736, 66771, 1, 40>>, <<66928, 66964, 2, 39>>, <<66929, 66937, 2, 39>>, <<66941, 66953, 2, 39>>,
       <<66957, 66961, 2, 39>>, <<66965, 66965, 1, 39>>, <<68736, 68786, 1, 64>>, <<71840, 71871, 1, 32>>,
       <<93760, 93791, 1, 32>>, <<125184, 125217, 1, 34>>
    >>

\* str.lower() on one character, a string: U+0130 gives "i" and U+0307, a
\* character of a run its image, every other character itself
lower(c) ==
    LET InRun(i) == /\ LowerOf[i][1] <= c /\ c <= LowerOf[i][2]
                    /\ (c - LowerOf[i][1]) % LowerOf[i][3] = 0
    IN  IF c = 304 THEN <<105, 775>>
        ELSE IF \E i \in 1..Len(LowerOf) : InRun(i)
        THEN <<c + LowerOf[CHOOSE i \in 1..Len(LowerOf) : InRun(i)][4]>>
        ELSE <<c>>
\* name[0].lower() + name[1:]
LowerFirst(name) == lower(name[1]) \o Tail(name)

\* (mutant) every non-empty tuple is replaced by its first element
UnwrapAnyTuple(value) ==
    IF value.kind = "tuple" /\ Len(value.elems) >= 1
    THEN Scalar(value.elems[1])
    ELSE value

\* a one-element tuple is replaced by its element
Unwrap(value) ==
    IF value.kind = "tuple" /\ Len(value.elems) = 1
    THEN Scalar(value.elems[1])
    ELSE value

\* header[name] = value
SetItem(h, name, value) ==
    [k \in DOMAIN h \cup {name} |-> IF k = name THEN value ELSE h[k]]

\* the loop of _read_header_from_pil over TAG_ID.items(), from item i on
RECURSIVE TagLoop(_, _, _)
TagLoop(h, tag, i) ==
    IF i > Len(TAG_ID) THEN h
    ELSE LET num == TAG_ID[i][1]
             name == TAG_ID[i][2]
         IN  IF num \in DOMAIN tag
             THEN TagLoop(SetItem(h, LowerFirst(name), Unwrap(tag[num])), tag, i + 1)
             ELSE TagLoop(h, tag, i + 1)

\* FabioImage.check_header() without argument: a new, empty header
check_header == EmptyHeader

\* TifImage._read_header_from_pil: the header built from image.tag; an
\* image without a tag attribute raises AttributeError
_read_header_from_pil(self, image) ==
    IF IsNone(image.tags)
    THEN Outcome(self, "AttributeError", None, <<>>)
    ELSE Outcome(self, "", Some(TagLoop(check_header, The(image.tags), 1)), <<>>)

\* TifImage.read, the try block: construct the codec, count the frames,
\* read frame 0 and keep the codec.  ok is FALSE when a call raised (the
\* except clause then only logs); at is the stream position at entry and
\* pos the position afterwards (the codec reads the stream to its end).
PrimaryAttempt(self, st, at) ==
    LET p == st.prim
        tiffIO == TiffIOObject(p)
        end == st.nbytes
        ctor(ok) == <<Event("TiffIO", -1, ok, at)>>
        count(ok) == Event("getNumberOfImages", -1, ok, end)
        s1 == [self EXCEPT !.nframes = p.count]
        frame == _create_frame(getData(tiffIO, 0), getInfo(tiffIO, 0))
        s2 == [s1 EXCEPT !.header = FrameHeader(frame), !.data = Some(frame.data)]
        info(ok) == Event("getInfo", 0, ok, end)
        dat(ok) == Event("getData", 0, ok, end)
        made == Event("_create_frame", 0, TRUE, end)
        counted == ctor(TRUE) \o <<count(TRUE), count(TRUE)>>
    IN  IF p.step = "ctor"
        THEN [self |-> self, ok |-> FALSE, trace |-> ctor(FALSE), pos |-> end]
        ELSE IF p.step = "count"
        THEN [self |-> self, ok |-> FALSE,
              trace |-> ctor(TRUE) \o <<count(FALSE)>>, pos |-> end]
        ELSE IF p.count > 0
        THEN IF p.step = "info"
             THEN [self |-> s1, ok |-> FALSE,
                   trace |-> counted \o <<info(FALSE)>>, pos |-> end]
             ELSE IF p.step = "data"
             THEN [self |-> s1, ok |-> FALSE,
                   trace |-> counted \o <<info(TRUE), dat(FALSE)>>, pos |-> end]
             ELSE [self |-> [s2 EXCEPT !._tiffio = Some(tiffIO)], ok |-> TRUE,
                   trace |-> counted \o <<info(TRUE), dat(TRUE), made>>,
                   pos |-> end]
        ELSE [self |-> [s1 EXCEPT !._tiffio = Some(tiffIO)], ok |-> TRUE,
              trace |-> counted, pos |-> end]

\* (mutant) the dimensions of the probe are kept
PrimaryDimsKeepProbe(self) ==
    IF IsNone(self.data) THEN Outcome(self, "AttributeError", None, <<>>)
    ELSE Outcome([self EXCEPT !.lib = "TiffIO"], "", None, <<>>)

\* TifImage.read, the else clause of the try: the dimensions from the
\* shape of self.data, then lib = "TiffIO"; self.data being None raises
\* AttributeError
PrimaryDims(self) ==
    LET shape == The(self.data).shape
        s2 == [self EXCEPT !.dim2 = shape[1], !.dim1 = shape[2]]
    IN  IF IsNone(self.data) THEN Outcome(self, "AttributeError", None, <<>>)
        ELSE IF ndim(The(self.data)) = 2
        THEN Outcome([s2 EXCEPT !.lib = "TiffIO"], "", None, <<>>)
        ELSE IF ndim(The(self.data)) = 3
        THEN Outcome([s2 EXCEPT !.lib = "TiffIO"], "", None, <<>>)
        ELSE Outcome([self EXCEPT !.lib = "TiffIO"], "", None, <<>>)

\* TifImage.read, the fallback: entered when self.lib is None
Fallback(self, st, pos, pil_imported) ==
    LET q == st.pil
        image == PilImage(q)
        sk == Event("infile.seek", 0, TRUE, pos)
        reseek == Event("infile.seek", 0, TRUE, st.nbytes)
        open(ok) == Event("Image.open", -1, ok, seek(pos, 0))
        s1 == [self EXCEPT !.pilimage = Some(image), !.lib = "PIL"]
        hdr == _read_header_from_pil(s1, image)
        frame == _create_frame(get_numpy_array(image), The(hdr.ret))
        s2 == [s1 EXCEPT !.header = FrameHeader(frame), !.data = Some(frame.data)]
        hcall(ok) == Event("_read_header_from_pil", -1, ok, st.nbytes)
        dcall(ok) == Event("get_numpy_array", -1, ok, st.nbytes)
        made == Event("_create_frame", 0, TRUE, st.nbytes)
    IN  IF self.lib # "None" THEN Outcome(self, "", None, <<>>)
        ELSE IF ~pil_imported
        THEN Outcome([self EXCEPT !.lib = "None"], "", None, <<sk>>)
        ELSE IF q.step = "open"
        THEN Outcome([self EXCEPT !.lib = "None"], "", None,
                     <<sk, open(FALSE), reseek>>)
        ELSE IF hdr.exc # ""
        THEN Outcome(s1, hdr.exc, None, <<sk, open(TRUE), hcall(FALSE)>>)
        ELSE IF q.step = "data"
        THEN Outcome(s1, "Exception", None,
                     <<sk, open(TRUE), hcall(TRUE), dcall(FALSE)>>)
        ELSE Outcome(s2, "", None,
                     <<sk, open(TRUE), hcall(TRUE), dcall(TRUE), made>>)

\* where the calls tr of the fallback branch leave a stream that was at
\* pos before them: at pos when there were none, at 0 after a trailing
\* infile.seek(0), else where the fallback codec's last call was made
StreamAfter(tr, pos) ==
    IF tr = <<>> THEN pos
    ELSE IF tr[Len(tr)].call = "infile.seek"
    THEN seek(tr[Len(tr)].pos, tr[Len(tr)].arg)
    ELSE tr[Len(tr)].pos

\* TifImage.read: probe, primary attempt, fallback, resetvals
read(self, st, pil_imported) ==
    LET probe == _readheader(self, st)
        probed == AfterRead(st, 0, ProbeLen)
        sk == Event("infile.seek", 0, TRUE, probed)
        s1 == [probe.self EXCEPT !.lib = "None"]
        prim == PrimaryAttempt(s1, st, seek(probed, 0))
        t1 == probe.trace \o <<sk>> \o prim.trace
        dims == PrimaryDims(prim.self)
        s2 == IF prim.ok THEN dims.self ELSE prim.self
        fb == Fallback(s2, st, prim.pos, pil_imported)
        reset == Event("resetvals", -1, TRUE, StreamAfter(fb.trace, prim.pos))
    IN  IF probe.exc # "" THEN Outcome(probe.self, probe.exc, None, probe.trace)
        ELSE IF prim.ok /\ dims.exc # "" THEN Outcome(dims.self, dims.exc, None, t1)
        ELSE IF fb.exc # "" THEN Outcome(fb.self, fb.exc, None, t1 \o fb.trace)
        ELSE Outcome(fb.self, "", None, t1 \o fb.trace \o <<reset>>)

\* TifImage.close: close and drop the TiffIO object if one is kept, then
\* the base class's close
close(self) ==
    IF ~IsNone(self._tiffio)
    THEN Outcome([self EXCEPT !._tiffio = None], "", None,
                 <<Event("_tiffio.close", -1, TRUE, 0),
                   Event("FabioImage.close", -1, TRUE, 0)>>)
    ELSE Outcome(self, "", None, <<Event("FabioImage.close", -1, TRUE, 0)>>)

\* (mutant) the upper bound included
InRangeInclusive(num, n) == 0 <= num /\ num <= n

\* the test of getframe on the frame number
InRange(num, n) == 0 <= num /\ num < n

\* (mutant) the frame is cached on the container
Cached(self, frame) ==
    [self EXCEPT !.header = FrameHeader(frame), !.data = Some(frame.data)]

\* the container after getframe built the frame: "This frame is not cached
\* on the image structure", nothing is assigned to self
NotCached(self, frame) == self

\* TifImage.getframe: frame num of the kept TiffIO object, in a new frame.
\* The codec raises on an index it has no image for.
getframe(self, num) ==
    LET t == The(self._tiffio)
        frame == _create_frame(getData(t, num), getInfo(t, num))
    IN  IF IsNone(self._tiffio)
        THEN Outcome(self, "NotImplementedError", None, <<>>)
        ELSE IF InRange(num, self.nframes)
        THEN IF 0 <= num /\ num < t.count
             THEN Outcome(NotCached(self, frame), "", Some(frame),
                          <<Event("getData", num, TRUE, 0),
                            Event("getInfo", num, TRUE, 0),
                            Event("_create_frame", num, TRUE, 0)>>)
             ELSE Outcome(self, "CodecError", None,
                          <<Event("getData", num, FALSE, 0)>>)
        ELSE Outcome(self, "Exception", None, <<>>)

\* what TiffIO.writeImage accepts: a buffer of rank 2 or 3
Writable(d) == ~IsNone(d) /\ ndim(The(d)) \in {2, 3}

\* (mutant) the session is released only when the block ends normally
ExitOnSuccessOnly(ok) == IF ok THEN <<Event("__exit__", -1, ok, 0)>> ELSE <<>>

\* what leaving the with block does to the write session
ExitWith(ok) == <<Event("__exit__", -1, ok, 0)>>

\* TifImage.write: open a write session on the primary codec, write
\* self.data and self.header in it, leave the with block.  w is the step
\* that raises: "ctor" (TiffIO(fname, mode="w")), "write" (writeImage) or
\* "ok"; the exception of writeImage leaves through __exit__.
write(self, w) ==
    IF w = "ctor"
    THEN Outcome(self, "IOError", None, <<Event("TiffIO.w", -1, FALSE, 0)>>)
    ELSE IF w = "write"
    THEN Outcome(self, "WriteError", None,
                 <<Event("TiffIO.w", -1, TRUE, 0),
                   Event("writeImage", -1, FALSE, 0)>> \o ExitWith(FALSE))
    ELSE Outcome(self, "", None,
                 <<Event("TiffIO.w", -1, TRUE, 0),
                   Event("writeImage", -1, TRUE, 0)>> \o ExitWith(TRUE))

\* (mutant) the buffer is handed over with rows and columns exchanged
WriteArgsTransposed(self) ==
    LET d == The(self.data)
    IN  [image |-> Some(Buffer(<<d.shape[2], d.shape[1]>>, d.val)),
         info |-> self.header]

\* the arguments write() hands to writeImage: self.data and
\* info=self.header
WriteArgs(self) == [image |-> self.data, info |-> self.header]

\* TiffIO.writeImage: the image file directory and the strip of the one
\* image written.  ImageWidth is the number of columns, ImageLength the
\* number of rows, SamplesPerPixel the third extent of a buffer of rank 3
\* and 1 for rank 2; the strip holds the pixels.
writeImage(args) ==
    LET d == The(args.image)
    IN  [ImageWidth |-> d.shape[2],
         ImageLength |-> d.shape[1],
         SamplesPerPixel |-> IF ndim(d) = 3 THEN d.shape[3] ELSE 1,
         strip |-> d.val]

\* the shape TiffIO.getData gives the image of a directory: rows by
\* columns, by samples when there are several
ImageShape(ifd) ==
    IF ifd.SamplesPerPixel = 1
    THEN <<ifd.ImageLength, ifd.ImageWidth>>
    ELSE <<ifd.ImageLength, ifd.ImageWidth, ifd.SamplesPerPixel>>

\* the file a successful write leaves as a stream: the one image of the
\* directory ifd, behind a prefix whose probed words are w9 and w15
WrittenFile(ifd, w9, w15) ==
    Stream(ProbeLen, w9, w15, 8, Prim("ok", 1, ImageShape(ifd), ifd.strip),
           Pil("ok", Some(EmptyHeader), <<ifd.ImageLength, ifd.ImageWidth>>))

----------------------------------------------------------------------------
(* The state machine.                                                      *)

Last(op, arg, o, input) ==
    [op |-> op, arg |-> arg, exc |-> o.exc, ret |-> o.ret, trace |-> o.trace,
     input |-> input]

\* the object after construction (FabioImage.__init__, TifImage.__init__)
Init ==
    /\ lib = "None"
    /\ _tiffio = None
    /\ nframes = 1
    /\ dim1 = 0
    /\ dim2 = 0
    /\ nbits = None
    /\ header = EmptyHeader
    /\ data = None
    /\ pilimage = None
    /\ Image \in BOOLEAN
    /\ disk = None
    /\ active = "None"
    /\ ops = 0
    /\ unclosed = 0
    /\ written = None
    /\ allocated = 0
    /\ last = Last("init", -1, Outcome(Self, "", None, <<>>), None)

Assign(self) ==
    /\ lib' = self.lib
    /\ _tiffio' = self._tiffio
    /\ nframes' = self.nframes
    /\ dim1' = self.dim1
    /\ dim2' = self.dim2
    /\ nbits' = self.nbits
    /\ header' = self.header
    /\ data' = self.data
    /\ pilimage' = self.pilimage

\* the read reached self._tiffio = tiffIO: every call of the primary attempt
\* returned
StoredHandle(o) ==
    /\ \E i \in 1..Len(o.trace) : o.trace[i].call = "TiffIO"
    /\ \A i \in 1..Len(o.trace) :
         o.trace[i].call \in {"TiffIO", "getNumberOfImages", "getInfo", "getData"}
            => o.trace[i].ok

\* the close called self._tiffio.close()
ClosedHandle(o) == \E i \in 1..Len(o.trace) : o.trace[i].call = "_tiffio.close"

\* the number of TiffFrame objects the operation constructed
Constructed(o) ==
    Cardinality({i \in 1..Len(o.trace) : o.trace[i].call = "_create_frame"})

\* the object a constructor call makes when n objects were made before: the
\* value, with an identity none of those has
Object(v, n) == [id |-> n + 1, data |-> v.data, tiff_header |-> v.tiff_header]

\* the operation's record, the frame it returns as the object constructed
Returned(o, n) ==
    IF IsNone(o.ret) THEN o ELSE [o EXCEPT !.ret = Some(Object(The(o.ret), n))]

\* the streams read() may be given: any of Streams, or the file written
Readable == Streams \cup (IF IsNone(disk) THEN {} ELSE {The(disk)})

Read ==
    \E st \in Readable :
        LET o == read(Self, st, Image)
        IN  /\ Assign(o.self)
            /\ last' = Last("read", st.nbytes, o,
                            IF Some(st) = disk THEN Some("disk") ELSE None)
            /\ active' = IF _readheader(Self, st).exc # "" THEN active ELSE o.self.lib
            /\ unclosed' = IF StoredHandle(o) THEN unclosed + 1 ELSE unclosed
            /\ allocated' = allocated + Constructed(o)
            /\ UNCHANGED <<Image, disk, written>>

Close ==
    LET o == close(Self)
    IN  /\ Assign(o.self)
        /\ last' = Last("close", -1, o, None)
        /\ active' = "None"
        /\ unclosed' = IF ClosedHandle(o) THEN unclosed - 1 ELSE unclosed
        /\ UNCHANGED <<Image, disk, written, allocated>>

Getframe ==
    \E num \in -1..(MaxFrames + 1) :
        LET o == getframe(Self, num)
        IN  /\ Assign(o.self)
            /\ last' = Last("getframe", num, Returned(o, allocated), None)
            /\ allocated' = allocated + Constructed(o)
            /\ UNCHANGED <<Image, disk, active, unclosed, written>>

Write ==
    \E w \in {"ctor", "write", "ok"}, pre \in ProbePairs :
        LET o == write(Self, w)
        IN  /\ w = "ok" => Writable(data)
            /\ Assign(o.self)
            /\ last' = Last("write", -1, o, None)
            /\ disk' = IF w = "ok"
                       THEN Some(WrittenFile(writeImage(WriteArgs(Self)),
                                             pre[1], pre[2]))
                       ELSE disk
            /\ written' = IF w = "ok" THEN data ELSE written
            /\ UNCHANGED <<Image, active, unclosed, allocated>>

Step == /\ ops < MaxOps
        /\ ops' = ops + 1

Next ==
    \/ Step /\ Read
    \/ Step /\ Close
    \/ Step /\ Getframe
    \/ Step /\ Write

Spec == Init /\ [][Next]_vars

\* read() on any of Streams, the stream kept in the record of the read
ReadKept ==
    \E st \in Streams :
        LET o == read(Self, st, Image)
        IN  /\ Assign(o.self)
            /\ last' = Last("read", st.nbytes, o, Some(st))
            /\ active' = IF _readheader(Self, st).exc # "" THEN active ELSE o.self.lib
            /\ unclosed' = IF StoredHandle(o) THEN unclosed + 1 ELSE unclosed
            /\ allocated' = allocated + Constructed(o)
            /\ UNCHANGED <<Image, disk, written>>

NextRank == Step /\ ReadKept

\* sequences of reads on one TifImage
SpecRank == Init /\ [][NextRank]_vars

\* _read_header_from_pil on its own, applied to an image holding any of
\* AllTagMaps
HeaderFromPil ==
    \E t \in AllTagMaps :
        LET image == PilImage(Pil("ok", Some(t), <<1, 1>>))
            o == _read_header_from_pil(Self, image)
        IN  /\ Assign(o.self)
            /\ last' = Last("_read_header_from_pil", -1, o, Some(image))
            /\ UNCHANGED <<Image, disk, active, ops, unclosed, written, allocated>>

NextHeader == HeaderFromPil

SpecHeader == Init /\ [][NextHeader]_vars

----------------------------------------------------------------------------
(* Reading the record of an operation.                                     *)

PrimaryCalls == {"TiffIO", "getNumberOfImages", "getInfo", "getData"}

\* a call named in names was made
CalledIn(tr, names) == \E i \in 1..Len(tr) : tr[i].call \in names
\* a call named in names raised
FailedIn(tr, names) == \E i \in 1..Len(tr) : tr[i].call \in names /\ ~tr[i].ok
\* a call named in names returned
ReturnedIn(tr, names) == \E i \in 1..Len(tr) : tr[i].call \in names /\ tr[i].ok

ReadDone == last.op = "read"
\* the read returned the container
ReadReturned == last.op = "read" /\ last.exc = ""

----------------------------------------------------------------------------
(* C1..C7: the state a read, a close and a getframe leave.                 *)

\* C1 (fallback activation): after a read that returned, in which a call
\* of the primary attempt raised and Image.open returned, lib is "PIL" and
\* nframes is 1.
C1_FallbackActivation ==
    (ReadReturned /\ FailedIn(last.trace, PrimaryCalls)
                  /\ ReturnedIn(last.trace, {"Image.open"}))
        => (lib = "PIL" /\ nframes = 1)

\* C2 (total failure): a read in which a call of the primary attempt raised
\* and Image.open raised leaves lib None and dim1, dim2 and data as they
\* were before the read.
C2_TotalFailure ==
    [][(last'.op = "read" /\ FailedIn(last'.trace, PrimaryCalls)
                          /\ FailedIn(last'.trace, {"Image.open"}))
        => (lib' = "None" /\ dim1' = dim1 /\ dim2' = dim2 /\ data' = data)]_vars

\* C3 (probe truncation): a read of a non-empty stream shorter than 64
\* bytes attempts the primary decoder, and the fallback decoder after it
\* when the primary attempt fails and PIL is there.
C3_ProbeTruncation ==
    (ReadDone /\ 0 < last.arg /\ last.arg < ProbeLen)
        => /\ CalledIn(last.trace, {"TiffIO"})
           /\ (FailedIn(last.trace, PrimaryCalls) /\ Image)
                => CalledIn(last.trace, {"Image.open"})

\* C4 (getframe only on the primary backend): getframe returns a frame only
\* when the active backend is the primary one, and raises
\* NotImplementedError when it is the fallback one or none.
C4_GetframePrimaryOnly ==
    last.op = "getframe"
        => /\ last.exc = "" => active = "TiffIO"
           /\ active \in {"PIL", "None"} => last.exc = "NotImplementedError"

\* the backend is the primary one: lib says so and its codec object is held
BackendPrimary == lib = "TiffIO" /\ ~IsNone(_tiffio)

\* C5 (frame indexing bounds): on a container whose backend is primary,
\* with frame count nframes, getframe(i) returns a frame when
\* 0 <= i < nframes and raises the range error, without a call of the
\* codec, otherwise; every index the codec is called with is one of its
\* images.
C5_FrameIndexBounds ==
    (last.op = "getframe" /\ BackendPrimary)
        => /\ (0 <= last.arg /\ last.arg < nframes)
                => (last.exc = "" /\ ~IsNone(last.ret))
           /\ ~(0 <= last.arg /\ last.arg < nframes)
                => (last.exc = "Exception" /\ last.trace = <<>>)
           /\ \A i \in 1..Len(last.trace) :
                0 <= last.trace[i].arg /\ last.trace[i].arg < The(_tiffio).count

\* the range error at i = N on a primary container of N >= 1 frames
C5_Witness ==
    /\ last.op = "getframe" /\ BackendPrimary
    /\ nframes >= 1 /\ last.arg = nframes
    /\ last.exc = "Exception"

\* C6 (idempotent close): close never raises and leaves no backend: no
\* TiffIO object, no PIL image, lib None.
C6_IdempotentClose ==
    last.op = "close"
        => /\ last.exc = ""
           /\ IsNone(_tiffio) /\ IsNone(pilimage)
           /\ lib = "None"

\* C7 (dimension invariant): after a read that returned with a backend
\* selected, dim1 is the extent of the second axis of data and dim2 the
\* extent of the first (stated for the buffers that have two axes).
C7_DimensionInvariant ==
    (ReadReturned /\ lib \in {"TiffIO", "PIL"}
                  /\ ~IsNone(data) /\ ndim(The(data)) >= 2)
        => /\ dim1 = The(data).shape[2]
           /\ dim2 = The(data).shape[1]

----------------------------------------------------------------------------
(* C8..C10: the writer, the round trip and the fallback header.            *)

\* the positions of the calls named name
Positions(tr, name) == {i \in 1..Len(tr) : tr[i].call = name}

\* C8 (writer release): a write opens one session on the primary codec;
\* once the session is open the last call of the write is the release of
\* the session, also when writeImage raised; the exception of writeImage is
\* the one write raises; writeImage is called at most once and the
\* fallback codec never.
C8_WriterRelease ==
    last.op = "write"
        => LET tr == last.trace
           IN  /\ Positions(tr, "TiffIO.w") = {1}
               /\ tr[1].ok => tr[Len(tr)].call = "__exit__"
               /\ ~tr[1].ok => last.exc = "IOError"
               /\ FailedIn(tr, {"writeImage"}) => last.exc = "WriteError"
               /\ ReturnedIn(tr, {"writeImage"}) => last.exc = ""
               /\ Cardinality(Positions(tr, "writeImage")) <= 1
               /\ ~CalledIn(tr, {"Image.open"} \cup PrimaryCalls)

\* a write in which writeImage raised, behind it the release
C8_Witness ==
    /\ last.op = "write"
    /\ FailedIn(last.trace, {"writeImage"})
    /\ last.trace[Len(last.trace)].call = "__exit__"
    /\ last.exc = "WriteError"

ExpectedName ==
    [id \in TagIds |->
        IF id = 256 THEN <<110, 99>>
        ELSE IF id = 257 THEN <<110, 114>>
        ELSE <<105, 100>>]

\* C10 (fallback header extraction): the header _read_header_from_pil
\* returns holds, for each id of the table present in the native tag map,
\* under the name with its first character lowercased, the native value, a
\* one-element tuple replaced by its element; it holds no other entry.
C10_FallbackHeader ==
    (last.op = "_read_header_from_pil" /\ last.exc = "")
        => LET tag == The(The(last.input).tags)
               h == The(last.ret)
           IN  /\ \A id \in TagIds \cap DOMAIN tag :
                    /\ ExpectedName[id] \in DOMAIN h
                    /\ h[ExpectedName[id]] =
                         IF tag[id].kind = "tuple" /\ Len(tag[id].elems) = 1
                         THEN Scalar(tag[id].elems[1])
                         ELSE tag[id]
               /\ \A k \in DOMAIN h :
                    \E id \in TagIds \cap DOMAIN tag : k = ExpectedName[id]

\* a one-element tuple under a known id, a longer tuple under another and
\* an id the table does not hold
C10_Witness ==
    /\ last.op = "_read_header_from_pil" /\ last.exc = ""
    /\ The(The(last.input).tags) =
         [k \in {256, 270, 999} |->
            IF k = 256 THEN Tuple(<<1>>) ELSE Tuple(<<1, 2>>)]
    /\ The(last.ret) =
         [k \in {<<110, 99>>, <<105, 100>>} |->
            IF k = <<110, 99>> THEN Scalar(1) ELSE Tuple(<<1, 2>>)]

----------------------------------------------------------------------------
(* C11..C19: handles, sessions and the order of a read.                    *)

FallbackCalls == {"Image.open", "_read_header_from_pil", "get_numpy_array"}

\* the probe of the read returned: the read went on to the decoders
ProbePassed == ReadDone /\ CalledIn(last.trace, {"infile.seek"})

\* C11 (at most one backend handle): the container never holds a TiffIO
\* object and a PIL image at the same time.
C11_AtMostOneHandle == ~(~IsNone(_tiffio) /\ ~IsNone(pilimage))

\* in tr, every session opened by a returning call named opener, and
\* followed by a raising call named in users, is released by a call named
\* closer before the fallback codec is opened
ReleasedAfterFailure(tr, opener, users, closer) ==
    \A i \in 1..Len(tr), j \in 1..Len(tr) :
        (i < j /\ tr[i].call = opener /\ tr[i].ok
               /\ tr[j].call \in users /\ ~tr[j].ok)
            => \E k \in (j + 1)..Len(tr) :
                 /\ tr[k].call = closer
                 /\ \A m \in (j + 1)..(k - 1) : tr[m].call # "Image.open"

\* C12 (handle released exactly once): when a close has returned, every
\* TiffIO object that a read stored on the container has been closed, once:
\* none is left unclosed and none was closed twice.
C12_ReleasedExactlyOnce == last.op = "close" => unclosed = 0

\* C13 (release on interrupted decode): in a read, a TiffIO object
\* constructed before a later call of the primary attempt raised is closed
\* before the fallback is tried, and a PIL image opened before header
\* extraction or data materialisation raised is closed before read exits.
C13_ReleaseOnInterrupt ==
    ReadDone
        => /\ ReleasedAfterFailure(last.trace, "TiffIO", PrimaryCalls, "tiffIO.close")
           /\ ReleasedAfterFailure(last.trace, "Image.open", FallbackCalls,
                                   "pilimage.close")

\* C14 (READY implies populated): after a read that returned with a backend
\* selected, header and data are those of frame 0, decoded by that backend
\* in this read.
C14_ReadyPopulated ==
    ReadReturned
        => /\ lib = "TiffIO"
                => /\ ReturnedIn(last.trace, {"getInfo"})
                   /\ ReturnedIn(last.trace, {"getData"})
                   /\ ~IsNone(_tiffio)
                   /\ header = getInfo(The(_tiffio), 0)
                   /\ data = Some(getData(The(_tiffio), 0))
           /\ lib = "PIL"
                => /\ ReturnedIn(last.trace, {"_read_header_from_pil"})
                   /\ ReturnedIn(last.trace, {"get_numpy_array"})
                   /\ ~IsNone(pilimage)
                   /\ Some(header) = _read_header_from_pil(Self, The(pilimage)).ret
                   /\ data = Some(get_numpy_array(The(pilimage)))

\* C15 (decode exceptions become state transitions): a read whose probe
\* returned returns the container, whatever the decoders raised.
C15_DecodeExceptionsCaught == ProbePassed => last.exc = ""

\* C16 (backend ordering): in a read, no call of the fallback codec comes
\* before the calls of the primary attempt; with PIL there, Image.open is
\* called if and only if a call of the primary attempt raised; when none
\* raised the read ends with lib "TiffIO" and without a call of the
\* fallback codec.
C16_BackendOrdering ==
    ProbePassed
        => LET tr == last.trace
           IN  /\ CalledIn(tr, {"TiffIO"})
               /\ \A i \in 1..Len(tr), j \in 1..Len(tr) :
                    (tr[i].call \in PrimaryCalls /\ tr[j].call \in FallbackCalls)
                        => i < j
               /\ Image => (CalledIn(tr, {"Image.open"}) <=> FailedIn(tr, PrimaryCalls))
               /\ ~FailedIn(tr, PrimaryCalls)
                    => (lib = "TiffIO" /\ ~CalledIn(tr, FallbackCalls))

\* C17 (getframe has no effect on the container): a getframe(i) that
\* returns gives a TiffFrame object constructed in this call, which no
\* earlier call returned, made by _create_frame of the codec's data and
\* header of frame i, each fetched by one call; it leaves header, data,
\* dim1, dim2, nbits, nframes, lib, _tiffio and pilimage as they were.
C17_GetframeNoEffect ==
    [][(last'.op = "getframe" /\ last'.exc = "")
        => /\ UNCHANGED <<header, data, dim1, dim2, nbits, nframes, lib,
                          _tiffio, pilimage>>
           /\ ~IsNone(_tiffio)
           /\ LET made == _create_frame(getData(The(_tiffio), last'.arg),
                                        getInfo(The(_tiffio), last'.arg))
                  frame == The(last'.ret)
              IN  /\ frame.data = made.data
                  /\ FrameHeader(frame) = FrameHeader(made)
                  /\ frame.id > allocated
                  /\ frame.id <= allocated'
                  /\ (last.op = "getframe" /\ last.exc = "")
                        => frame.id # The(last.ret).id
           /\ last'.trace = <<Event("getData", last'.arg, TRUE, 0),
                              Event("getInfo", last'.arg, TRUE, 0),
                              Event("_create_frame", last'.arg, TRUE, 0)>>]_vars

\* a read and two calls of getframe, the second for frame 1: its frame is
\* the third object made, and its data and header are not the container's,
\* which still holds frame 0
C17_Witness ==
    /\ last.op = "getframe" /\ last.exc = "" /\ last.arg = 1
    /\ ~IsNone(_tiffio) /\ ~IsNone(last.ret)
    /\ The(last.ret).id = 3 /\ allocated = 3
    /\ The(last.ret).data = getData(The(_tiffio), 1)
    /\ The(last.ret).data # The(data)
    /\ FrameHeader(The(last.ret)) # header
    /\ data = Some(getData(The(_tiffio), 0))

\* C18 (primary rank handling): a read in which getData(0) returned ends
\* without exception and with lib "TiffIO"; for a buffer of rank 2
\* (dim2, dim1) is its shape, for rank 3 its first two extents, and for
\* any other rank dim1 and dim2 are words 9 and 15 of this stream's prefix.
C18_PrimaryRank ==
    (ReadDone /\ ReturnedIn(last.trace, {"getData"}))
        => LET st == The(last.input)
               b == getData(TiffIOObject(st.prim), 0)
               probe == _readheader(Self, st).self
           IN  /\ last.exc = ""
               /\ lib = "TiffIO"
               /\ ndim(b) = 2 => <<dim2, dim1>> = b.shape
               /\ ndim(b) = 3 => (dim2 = b.shape[1] /\ dim1 = b.shape[2])
               /\ ndim(b) \notin {2, 3}
                    => (dim1 = probe.dim1 /\ dim2 = probe.dim2)

\* after a read of rank 2 that set both dimensions to 1, a read whose
\* primary codec returned a buffer of rank 1 kept the words of its own
\* probe, which differ from the buffer's extent
C18_Witness ==
    /\ ReadDone /\ ReturnedIn(last.trace, {"getData"})
    /\ ops = 2
    /\ ndim(The(data)) = 1
    /\ lib = "TiffIO"
    /\ dim1 = The(last.input).w9 /\ dim2 = The(last.input).w15
    /\ dim1 # dim2

\* C19 (reseek before each decoder): in a read, the stream is at position 0
\* whenever TiffIO(infile) or Image.open(infile) is called.
C19_ReseekBeforeDecoder ==
    ReadDone
        => \A i \in 1..Len(last.trace) :
             last.trace[i].call \in {"TiffIO", "Image.open"}
                => last.trace[i].pos = 0

\* a read in which the probe consumed 64 bytes, the primary attempt read
\* the stream to its end and raised, and Image.open was called
C19_Witness ==
    /\ ReadDone
    /\ \E i \in 1..Len(last.trace) :
         /\ last.trace[i].call = "infile.seek" /\ last.trace[i].pos = ProbeLen
         /\ last.trace[i + 1].call = "TiffIO" /\ last.trace[i + 1].pos = 0
    /\ \E i \in 1..Len(last.trace) :
         /\ last.trace[i].call = "infile.seek" /\ last.trace[i].pos > 0
         /\ i > 2
         /\ last.trace[i + 1].call = "Image.open" /\ last.trace[i + 1].pos = 0

----------------------------------------------------------------------------
(* Fit2dSpreadsheetImage: the ascii spreadsheet reader.                    *)

\* A whitespace-separated token of a line: an integer literal, a literal
\* only float() parses (such as 1.5), or one neither parses.
IntTok(n) == [kind |-> "int", val |-> n]
FloatTok == [kind |-> "float", val |-> 0]
JunkTok == [kind |-> "junk", val |-> 0]

\* int(x) and float(x) return
IntParses(tok) == tok.kind = "int"
FloatParses(tok) == tok.kind \in {"int", "float"}

\* A file: the tokens of its first line (none for an empty file or a blank
\* first line) and the tokens of each following line.
Fit2dFile(first, lines) == [first |-> first, lines |-> lines]

HeaderToks == {IntTok(n) : n \in 0..MaxDim} \cup {FloatTok, JunkTok}
FirstLines ==
    {<<>>} \cup {<<a>> : a \in HeaderToks}
    \cup {<<a, b>> : a \in HeaderToks, b \in HeaderToks}
\* a line of k numbers
NumLine(k) == [i \in 1..k |-> IntTok(1)]
DataLines ==
    {NumLine(k) : k \in 0..MaxDim} \cup {<<JunkTok>>, <<FloatTok, JunkTok>>}
Bodies == UNION { [1..n -> DataLines] : n \in 0..MaxDim }
Fit2dFiles == {Fit2dFile(f, b) : f \in FirstLines, b \in Bodies}

\* Fit2dSpreadsheetImage._readheader: the first two tokens of the first
\* line as integers, into the header
Fit2d_readheader(self, f) ==
    LET items == f.first
        h1 == SetItem(self.header, "title", items)
        h2 == SetItem(h1, "Dim_1", items[1].val)
        hdr == SetItem(h2, "Dim_2", items[2].val)
        rl == <<Event("infile.readline", -1, TRUE, 0)>>
    IN  IF Len(items) < 1 THEN Outcome(self, "IndexError", None, rl)
        ELSE IF ~IntParses(items[1]) THEN Outcome(self, "ValueError", None, rl)
        ELSE IF Len(items) < 2 THEN Outcome(self, "IndexError", None, rl)
        ELSE IF ~IntParses(items[2]) THEN Outcome(self, "ValueError", None, rl)
        ELSE Outcome([self EXCEPT !.header = hdr], "", None, rl)

\* the loop over infile.readlines(): the lines whose tokens all parse as
\* floats, a blank line giving an empty row
ParsedRows(lines) ==
    SelectSeq(lines, LAMBDA l : \A i \in 1..Len(l) : FloatParses(l[i]))

\* numpy.array(vals).astype(float32) raises on rows of unequal lengths
Ragged(vals) == \E i \in 1..Len(vals) : Len(vals[i]) # Len(vals[1])

\* the shape of numpy.array(vals) for rows of equal lengths
ArrayShape(vals) ==
    IF Len(vals) = 0 THEN <<0>> ELSE <<Len(vals), Len(vals[1])>>

\* assert self.data.shape == (self.dim2, self.dim1)
ShapeAsserted(shape, d2, d1) == shape = <<d2, d1>>

\* Fit2dSpreadsheetImage.read
Fit2d_read(self, f) ==
    LET s0 == [self EXCEPT !.header = EmptyHeader]
        h == Fit2d_readheader(s0, f)
        s1 == [h.self EXCEPT !.dim1 = h.self.header.Dim_1,
                             !.dim2 = h.self.header.Dim_2]
        vals == ParsedRows(f.lines)
        s2 == [s1 EXCEPT !.data = Some([shape |-> ArrayShape(vals), val |-> vals])]
        t == h.trace \o <<Event("infile.readlines", -1, TRUE, 0)>>
    IN  IF h.exc # "" THEN h
        ELSE IF Ragged(vals) THEN Outcome(s1, "IOError", None, t)
        ELSE IF ~ShapeAsserted(ArrayShape(vals), s1.dim2, s1.dim1)
        THEN Outcome(s2, "IOError", None, t)
        ELSE Outcome([s2 EXCEPT !.pilimage = None], "", None, t)

\* a new Fit2dSpreadsheetImage and the file at the path given to read()
InitFit2d ==
    /\ lib = "None"
    /\ _tiffio = None
    /\ nframes = 1
    /\ dim1 = 0
    /\ dim2 = 0
    /\ nbits = None
    /\ header = EmptyHeader
    /\ data = None
    /\ pilimage = None
    /\ Image = TRUE
    /\ disk \in {Some(f) : f \in Fit2dFiles}
    /\ active = "None"
    /\ ops = 0
    /\ unclosed = 0
    /\ written = None
    /\ allocated = 0
    /\ last = Last("init", -1, Outcome(Self, "", None, <<>>), None)

ReadFit2d ==
    LET o == Fit2d_read(Self, The(disk))
    IN  /\ Assign(o.self)
        /\ last' = Last("Fit2dSpreadsheetImage.read", -1, o, None)
        /\ UNCHANGED <<Image, disk, active, unclosed, written, allocated>>

NextFit2d == Step /\ ReadFit2d

SpecFit2d == InitFit2d /\ [][NextFit2d]_vars

\* the content the claim describes: a first line starting with two
\* integers x and y, and y parsed rows of x numbers each
WellFormed(f) ==
    /\ Len(f.first) >= 2
    /\ IntParses(f.first[1]) /\ IntParses(f.first[2])
    /\ LET rows == ParsedRows(f.lines)
       IN  /\ Len(rows) = f.first[2].val
           /\ Len(rows) > 0
           /\ \A i \in 1..Len(rows) : Len(rows[i]) = f.first[1].val

\* C20 (Fit2dSpreadsheetImage.read): read returns exactly on the files
\* whose first line starts with two integers dim1 and dim2 and whose parsed
\* rows form a dim2 x dim1 array, and then exposes data of that shape; on
\* every other file it raises IOError.
C20_Fit2dRead ==
    last.op = "Fit2dSpreadsheetImage.read"
        => IF WellFormed(The(disk))
           THEN /\ last.exc = ""
                /\ dim1 = The(disk).first[1].val
                /\ dim2 = The(disk).first[2].val
                /\ The(data).shape = <<dim2, dim1>>
                /\ The(data).val = ParsedRows(The(disk).lines)
           ELSE last.exc = "IOError"

====
